---- MODULE Spec2Model ----
(***************************************************************************)
(* Gold Trading Calculator (src/gold_trading_ui.py).                       *)
(*                                                                         *)
(* The program is a Streamlit script: every interaction with a sidebar     *)
(* widget re-runs the whole script, which reads the widget values, runs    *)
(* the core calculations (lines 162-263) and renders the metrics.          *)
(*                                                                         *)
(* State: the cached live price snapshot, the value of every sidebar       *)
(* widget, and the number of runs so far.  The figures a run computes and  *)
(* renders are functions of the widget values of that run.                 *)
(*                                                                         *)
(* Numbers.  The script computes in Python floats.  Here every float is    *)
(* an exact rational <<numerator, denominator>> in lowest terms with a     *)
(* positive denominator, so the formulas are checked as formulas over the  *)
(* rationals; binary rounding of the floats is not modelled.               *)
(***************************************************************************)
EXTENDS Integers, Sequences, FiniteSets, TLC

VARIABLES live_prices, widgets, runs

vars == <<live_prices, widgets, runs>>

(***************************************************************************)
(* Bounds of the model.                                                    *)
(***************************************************************************)
\* number of script runs explored after the first one
MaxRuns == 2
\* largest position of the "Number of Layers" slider explored (the slider
\* itself goes to 12)
MaxLayers == 6

(***************************************************************************)
(* Rational arithmetic standing for the float arithmetic of the script.    *)
(***************************************************************************)
\* The operations are functions, applied to values: an operand is
\* evaluated once.
Rat == Int \X Int

Abs(x) == IF x < 0 THEN -x ELSE x

GCD[a \in Nat, b \in Nat] == IF b = 0 THEN a ELSE GCD[b, a % b]

\* the rational n/d in lowest terms (d # 0)
Lowest[n \in Int, d \in Int] ==
    LET g == GCD[Abs(n), Abs(d)]
    IN  IF d < 0 THEN <<(-n) \div g, (-d) \div g>> ELSE <<n \div g, d \div g>>

Q(n, d) == Lowest[n, d]

I(k) == <<k, 1>>

Sum[a \in Rat, b \in Rat] == Lowest[a[1] * b[2] + b[1] * a[2], a[2] * b[2]]
Difference[a \in Rat, b \in Rat] ==
    Lowest[a[1] * b[2] - b[1] * a[2], a[2] * b[2]]
Product[a \in Rat, b \in Rat] == Lowest[a[1] * b[1], a[2] * b[2]]
\* a / b for b # 0 (every division of the script is guarded or has a
\* non-zero divisor)
Quotient[a \in Rat, b \in Rat] == Lowest[a[1] * b[2], a[2] * b[1]]
Less[a \in Rat, b \in Rat] == a[1] * b[2] < b[1] * a[2]

RAdd(a, b) == Sum[a, b]
RSub(a, b) == Difference[a, b]
RMul(a, b) == Product[a, b]
RDiv(a, b) == Quotient[a, b]
RLt(a, b) == Less[a, b]
RGt(a, b) == Less[b, a]
RLe(a, b) == ~Less[b, a]
\* Python's max(a, b) and min(a, b)
RMax(a, b) == IF Less[a, b] THEN b ELSE a
RMin(a, b) == IF Less[b, a] THEN b ELSE a

\* Python's sum() of a list of floats f[1..n]
RECURSIVE RSumTo(_, _)
RSumTo(f, n) == IF n = 0 THEN I(0) ELSE RAdd(RSumTo(f, n - 1), f[n])

\* Python's sum() of a list of ints f[1..n]
RECURSIVE SumTo(_, _)
SumTo(f, n) == IF n = 0 THEN 0 ELSE SumTo(f, n - 1) + f[n]

Min(a, b) == IF a < b THEN a ELSE b

(***************************************************************************)
(* Core calculations (lines 158-263).  Every run of the script recomputes  *)
(* each of these variables from the widget values, so each is a function   *)
(* of the widget values of the run; the names are the script's.  Lists are *)
(* 1-based here: layer i of the script's range(num_layers) is index i+1.   *)
(***************************************************************************)
\* the gap taken over the number of layers instead of the number of gaps
price_gap_pips_over_layers ==
    IF widgets.num_layers > 1
    THEN RDiv(I(widgets.distance_first_to_last_layer), I(widgets.num_layers))
    ELSE I(0)

\* line 162
price_gap_pips ==
    IF widgets.num_layers > 1
    THEN RDiv(I(widgets.distance_first_to_last_layer), I(widgets.num_layers - 1))
    ELSE I(0)

\* line 163
distance_to_sl_per_layer ==
    [i \in 1..widgets.num_layers |->
        RSub(I(widgets.sl_distance_pips), RMul(I(i - 1), price_gap_pips))]

\* line 166
scale ==
    IF RGt(widgets.lot_size_per_trade, I(0))
    THEN RDiv(widgets.lot_size_per_trade, Q(1, 100))
    ELSE I(0)

\* the per-trade loss without the max(0.0, d) of line 167
loss_per_trade_usd_unclamped ==
    [i \in 1..widgets.num_layers |->
        RMul(RMul(distance_to_sl_per_layer[i], widgets.pip_value), scale)]

\* line 167
loss_per_trade_usd_per_layer ==
    [i \in 1..widgets.num_layers |->
        RMul(RMul(RMax(I(0), distance_to_sl_per_layer[i]), widgets.pip_value),
             scale)]

\* line 168
profit_per_trade_usd ==
    RMul(RMul(I(widgets.tp_distance_pips), widgets.pip_value), scale)

\* line 171
theoretical_max_loss_usd ==
    RSumTo([i \in 1..widgets.num_layers |->
               RMul(loss_per_trade_usd_per_layer[i],
                    I(widgets.trades_per_layer_list[i]))],
           widgets.num_layers)

\* line 177
total_configured_lots ==
    RSumTo([i \in 1..widgets.num_layers |->
               RMul(I(widgets.trades_per_layer_list[i]), widgets.lot_size_per_trade)],
           widgets.num_layers)

\* line 178
total_opened_trades == SumTo(widgets.opened_trades_per_layer, widgets.num_layers)

\* line 179
total_tp_hits == SumTo(widgets.tp_hits_per_layer, widgets.num_layers)

\* every opened trade counted as a stop-loss hit, the take-profit hits not
\* taken off
sl_hits_with_tp_hits ==
    [i \in 1..widgets.num_layers |-> widgets.opened_trades_per_layer[i]]

\* the layer loop, lines 182-207: the values of its iteration i
sl_hits ==
    [i \in 1..widgets.num_layers |->
        widgets.opened_trades_per_layer[i] - widgets.tp_hits_per_layer[i]]

layer_profit_usd ==
    [i \in 1..widgets.num_layers |->
        RMul(I(widgets.tp_hits_per_layer[i]), profit_per_trade_usd)]

layer_loss_usd_realized ==
    [i \in 1..widgets.num_layers |->
        RMul(I(sl_hits[i]), loss_per_trade_usd_per_layer[i])]

layer_max_loss_usd ==
    [i \in 1..widgets.num_layers |->
        RMul(I(widgets.trades_per_layer_list[i]), loss_per_trade_usd_per_layer[i])]

\* the accumulators of the loop, lines 187, 193, 194
total_sl_hits == SumTo(sl_hits, widgets.num_layers)

total_profit_usd == RSumTo(layer_profit_usd, widgets.num_layers)

total_realized_loss_usd == RSumTo(layer_loss_usd_realized, widgets.num_layers)

\* line 210
closed_trades_count == total_opened_trades

\* line 211
net_realized_pl_usd ==
    RSub(total_profit_usd, total_realized_loss_usd)

\* the average taken over the take-profit hits instead of the closed trades
average_profit_per_tp_hit_usd ==
    IF closed_trades_count > 0
    THEN IF total_tp_hits > 0
         THEN RDiv(net_realized_pl_usd, I(total_tp_hits))
         ELSE net_realized_pl_usd
    ELSE I(0)

\* line 212
average_profit_per_closed_trade_usd ==
    IF closed_trades_count > 0
    THEN RDiv(net_realized_pl_usd, I(closed_trades_count))
    ELSE I(0)

\* the conversion with every quote taken as account currency per USD
usd_to_account_currency_multiplying(amount_usd) ==
    IF widgets.account_currency = "USD"
    THEN amount_usd
    ELSE RMul(amount_usd, widgets.conversion_rate_usd_to_account)

\* lines 217-228; the function reads the globals account_currency and
\* conversion_rate_usd_to_account
usd_to_account_currency(amount_usd) ==
    IF widgets.account_currency \in {"EUR", "GBP", "AUD"}
    THEN IF widgets.conversion_rate_usd_to_account = I(0)
         THEN I(0)
         ELSE RDiv(amount_usd, widgets.conversion_rate_usd_to_account)
    ELSE IF widgets.account_currency \in {"CAD", "CHF", "JPY"}
         THEN RMul(amount_usd, widgets.conversion_rate_usd_to_account)
         ELSE amount_usd

\* lines 235-239
theoretical_max_loss_account ==
    usd_to_account_currency(theoretical_max_loss_usd)

realized_loss_account ==
    usd_to_account_currency(total_realized_loss_usd)

total_profit_account == usd_to_account_currency(total_profit_usd)

net_realized_pl_account ==
    usd_to_account_currency(net_realized_pl_usd)

avg_profit_account ==
    usd_to_account_currency(average_profit_per_closed_trade_usd)

\* lines 244-248
start_balance == 1000
end_balance == 100000

\* the interpolation without the clamp of line 247
risk_percent_unclamped(balance) ==
    RSub(Q(10, 100),
         RMul(RDiv(RSub(balance, I(start_balance)),
                   I(end_balance - start_balance)),
              RSub(Q(10, 100), Q(25, 1000))))

\* the interpolation with its two ends exchanged
risk_percent_rising(balance) ==
    LET b == RMax(I(start_balance), RMin(balance, I(end_balance)))
    IN  RAdd(Q(25, 1000),
             RMul(RDiv(RSub(b, I(start_balance)),
                       I(end_balance - start_balance)),
                  RSub(Q(10, 100), Q(25, 1000))))

risk_percent(balance) ==
    LET b == RMax(I(start_balance), RMin(balance, I(end_balance)))
    IN  RSub(Q(10, 100),
             RMul(RDiv(RSub(b, I(start_balance)),
                       I(end_balance - start_balance)),
                  RSub(Q(10, 100), Q(25, 1000))))

\* line 250
allowed_risk_percentage == RMul(risk_percent(widgets.account_balance), I(100))

\* line 252
theoretical_max_risk_percentage ==
    IF widgets.account_balance # I(0)
    THEN RMul(RDiv(theoretical_max_loss_account, widgets.account_balance), I(100))
    ELSE I(0)

\* line 253
realized_risk_percentage ==
    IF widgets.account_balance # I(0)
    THEN RMul(RDiv(realized_loss_account, widgets.account_balance), I(100))
    ELSE I(0)

\* line 258; a leverage option "1:N" is the pair <<1, N>> and
\* int(leverage.split(":")[1]) its second component
leverage_ratio == widgets.leverage[2]

\* line 259
contract_size == 100

\* the margin of one ounce per lot: the contract size left out
margin_required_usd_per_ounce ==
    RDiv(RMul(total_configured_lots, widgets.xauusd_price), I(leverage_ratio))

\* line 260
margin_required_usd ==
    RDiv(RMul(RMul(total_configured_lots, I(contract_size)), widgets.xauusd_price),
         I(leverage_ratio))

\* line 261
margin_required_account == usd_to_account_currency(margin_required_usd)

\* line 262
margin_usage_percentage ==
    IF widgets.account_balance # I(0)
    THEN RMul(RDiv(margin_required_account, widgets.account_balance), I(100))
    ELSE I(0)

\* line 263
free_margin_account == RSub(widgets.account_balance, margin_required_account)

\* the messages decided by the theoretical risk alone
risk_assessment_theoretical_only ==
    IF RGt(theoretical_max_risk_percentage, allowed_risk_percentage)
    THEN "theoretical_exceeds_allowed"
    ELSE IF RGt(theoretical_max_risk_percentage,
                RMul(allowed_risk_percentage, Q(75, 100)))
         THEN "realized_approaching"
         ELSE "within_allowed"

\* lines 296-304: which of the four risk messages the run shows
risk_assessment ==
    IF RGt(theoretical_max_risk_percentage, allowed_risk_percentage)
    THEN "theoretical_exceeds_allowed"
    ELSE IF RGt(realized_risk_percentage, allowed_risk_percentage)
         THEN "realized_exceeds_allowed"
         ELSE IF RGt(realized_risk_percentage,
                     RMul(allowed_risk_percentage, Q(75, 100)))
              THEN "realized_approaching"
              ELSE "within_allowed"

\* lines 332-340: which of the four margin messages the run shows
margin_message ==
    IF RGt(margin_usage_percentage, I(50)) THEN "too_high"
    ELSE IF RGt(margin_usage_percentage, I(30)) THEN "high"
         ELSE IF RGt(margin_usage_percentage, I(10)) THEN "moderate"
              ELSE "healthy"

\* Lines 158-417 hold no raise, no st.stop() and no validation branch, and
\* every division is guarded or has a non-zero divisor: whatever the widget
\* values, the run reaches the last line with all metrics rendered.
run_outcome == "metrics_rendered"

(***************************************************************************)
(* The sidebar (lines 24-156).                                             *)
(***************************************************************************)
\* get_live_prices(), lines 24-77: the snapshot is what the data provider
\* returned, or the fixed defaults of lines 68-77 when the fetch failed
FallbackPrices ==
    [ xauusd |-> I(1950), eurusd |-> Q(108, 100), gbpusd |-> Q(126, 100),
      audusd |-> Q(65, 100), usdcad |-> Q(135, 100), usdchf |-> Q(88, 100),
      usdjpy |-> I(148) ]

FetchedPrices ==
    [ xauusd |-> I(2400), eurusd |-> Q(110, 100), gbpusd |-> Q(130, 100),
      audusd |-> Q(70, 100), usdcad |-> Q(140, 100), usdchf |-> Q(90, 100),
      usdjpy |-> I(150) ]

LiveSnapshots == {FallbackPrices, FetchedPrices}

\* lines 117-129: the quote the rate input of the chosen currency starts at
\* (no input exists for USD and the rate stays 1.0)
LiveRate(live, ccy) ==
    CASE ccy = "EUR" -> live.eurusd
      [] ccy = "GBP" -> live.gbpusd
      [] ccy = "AUD" -> live.audusd
      [] ccy = "CAD" -> live.usdcad
      [] ccy = "CHF" -> live.usdchf
      [] ccy = "JPY" -> live.usdjpy
      [] OTHER -> I(1)

\* the values of each widget the model explores, all inside the widget's
\* min_value..max_value
Currencies == {"EUR", "USD", "GBP", "CHF", "AUD", "CAD", "JPY"}
LayerChoices == 1..MaxLayers
LotChoices == {Q(1, 100), Q(2, 100)}
PipValueChoices == {Q(1, 10), Q(1, 4)}
SlDistanceChoices == {80, 20}
TpDistanceChoices == {50, 100}
LayerDistanceChoices == {30, 40}
BalanceChoices ==
    {I(300), I(500), I(1000), I(2000), I(100000), I(125000), I(150000),
     I(175000), I(200000)}
LeverageChoices == {<<1, 50>>, <<1, 500>>}
PriceOverride == I(2000)
RateOverride(ccy) == IF ccy = "JPY" THEN I(100) ELSE Q(5, 4)
PlannedChoices == {0, 4}
\* positions of the opened slider (range 0..planned) and of the TP slider
\* (range 0..opened)
OpenedPicks(planned) == {1, planned} \cap (0..planned)
TpPicks(opened) == {0, opened}

\* line 137-139: the default of the planned-trades slider of layer i
DefaultTrades(i) == IF i <= 6 THEN <<4, 4, 4, 4, 8, 8>>[i] ELSE 4

\* line 154: the default of the TP-hits slider
DefaultTpHits(opened, planned) ==
    Min(opened, IF planned > 0 THEN planned \div 2 ELSE 0)

\* the widget values of the first run: every widget at its default
DefaultWidgets(live) ==
    LET n == Min(6, MaxLayers)
    IN  [ num_layers |-> n,
          lot_size_per_trade |-> Q(1, 100),
          pip_value |-> Q(1, 10),
          sl_distance_pips |-> 80,
          tp_distance_pips |-> 50,
          distance_first_to_last_layer |-> 30,
          account_balance |-> I(1000),
          account_currency |-> "EUR",
          leverage |-> <<1, 500>>,
          xauusd_price |-> live.xauusd,
          conversion_rate_usd_to_account |-> LiveRate(live, "EUR"),
          trades_per_layer_list |-> [i \in 1..n |-> DefaultTrades(i)],
          opened_trades_per_layer |-> [i \in 1..n |-> DefaultTrades(i)],
          tp_hits_per_layer |->
              [i \in 1..n |-> DefaultTpHits(DefaultTrades(i), DefaultTrades(i))] ]

Init ==
    /\ live_prices \in LiveSnapshots
    /\ widgets = DefaultWidgets(live_prices)
    /\ runs = 0

\* A widget change re-runs the script with the new widget values w.
Rerun(w) ==
    /\ runs < MaxRuns
    /\ runs' = runs + 1
    /\ widgets' = w

\* line 101.  The sliders of a layer that is not rendered lose their state;
\* a layer that appears starts at the defaults of lines 139, 153, 154.
SetNumLayers(n) ==
    /\ n # widgets.num_layers
    /\ LET old == widgets.num_layers
           planned == [i \in 1..n |->
                          IF i <= old THEN widgets.trades_per_layer_list[i]
                          ELSE DefaultTrades(i)]
       IN  Rerun([widgets EXCEPT
                    !.num_layers = n,
                    !.trades_per_layer_list = planned,
                    !.opened_trades_per_layer =
                        [i \in 1..n |->
                            IF i <= old THEN widgets.opened_trades_per_layer[i]
                            ELSE planned[i]],
                    !.tp_hits_per_layer =
                        [i \in 1..n |->
                            IF i <= old THEN widgets.tp_hits_per_layer[i]
                            ELSE DefaultTpHits(planned[i], planned[i])]])
    /\ UNCHANGED live_prices

\* the planned slider changed while the opened and TP sliders keep their
\* positions
SetPlannedTrades_keeping_sliders(i, t) ==
    /\ i \in 1..widgets.num_layers
    /\ t # widgets.trades_per_layer_list[i]
    /\ Rerun([widgets EXCEPT !.trades_per_layer_list[i] = t])
    /\ UNCHANGED live_prices

\* line 140.  The opened slider of the layer has max_value = value = planned
\* (line 153) and the TP slider max_value = opened (line 154): both are new
\* sliders after the change and start at their defaults.
SetPlannedTrades(i, t) ==
    /\ i \in 1..widgets.num_layers
    /\ t # widgets.trades_per_layer_list[i]
    /\ Rerun([widgets EXCEPT
                !.trades_per_layer_list[i] = t,
                !.opened_trades_per_layer[i] = t,
                !.tp_hits_per_layer[i] = DefaultTpHits(t, t)])
    /\ UNCHANGED live_prices

\* line 153: a position of the slider 0..planned; the TP slider of the layer
\* restarts at its default
SetOpenedTrades(i, o) ==
    /\ i \in 1..widgets.num_layers
    /\ o \in OpenedPicks(widgets.trades_per_layer_list[i])
    /\ o # widgets.opened_trades_per_layer[i]
    /\ Rerun([widgets EXCEPT
                !.opened_trades_per_layer[i] = o,
                !.tp_hits_per_layer[i] =
                    DefaultTpHits(o, widgets.trades_per_layer_list[i])])
    /\ UNCHANGED live_prices

\* line 154: a position of the slider 0..opened
SetTpHits(i, h) ==
    /\ i \in 1..widgets.num_layers
    /\ h \in TpPicks(widgets.opened_trades_per_layer[i])
    /\ h # widgets.tp_hits_per_layer[i]
    /\ Rerun([widgets EXCEPT !.tp_hits_per_layer[i] = h])
    /\ UNCHANGED live_prices

\* line 102
SetLotSize(v) ==
    /\ v # widgets.lot_size_per_trade
    /\ Rerun([widgets EXCEPT !.lot_size_per_trade = v])
    /\ UNCHANGED live_prices

\* line 103
SetPipValue(v) ==
    /\ v # widgets.pip_value
    /\ Rerun([widgets EXCEPT !.pip_value = v])
    /\ UNCHANGED live_prices

\* line 104
SetSlDistance(v) ==
    /\ v # widgets.sl_distance_pips
    /\ Rerun([widgets EXCEPT !.sl_distance_pips = v])
    /\ UNCHANGED live_prices

\* line 105
SetTpDistance(v) ==
    /\ v # widgets.tp_distance_pips
    /\ Rerun([widgets EXCEPT !.tp_distance_pips = v])
    /\ UNCHANGED live_prices

\* line 106
SetLayerDistance(v) ==
    /\ v # widgets.distance_first_to_last_layer
    /\ Rerun([widgets EXCEPT !.distance_first_to_last_layer = v])
    /\ UNCHANGED live_prices

\* line 107
SetAccountBalance(v) ==
    /\ v # widgets.account_balance
    /\ Rerun([widgets EXCEPT !.account_balance = v])
    /\ UNCHANGED live_prices

\* lines 110, 117-129: the rate input of the new currency starts at the live
\* quote of its pair
SetAccountCurrency(c) ==
    /\ c # widgets.account_currency
    /\ Rerun([widgets EXCEPT
                !.account_currency = c,
                !.conversion_rate_usd_to_account = LiveRate(live_prices, c)])
    /\ UNCHANGED live_prices

\* lines 118-129: the user overrides the quote (there is no input for USD)
SetConversionRate ==
    /\ widgets.account_currency # "USD"
    /\ \E r \in {RateOverride(widgets.account_currency),
                 LiveRate(live_prices, widgets.account_currency)} :
          /\ r # widgets.conversion_rate_usd_to_account
          /\ Rerun([widgets EXCEPT !.conversion_rate_usd_to_account = r])
    /\ UNCHANGED live_prices

\* line 111
SetLeverage(v) ==
    /\ v # widgets.leverage
    /\ Rerun([widgets EXCEPT !.leverage = v])
    /\ UNCHANGED live_prices

\* line 113
SetXauusdPrice ==
    /\ \E v \in {PriceOverride, live_prices.xauusd} :
          /\ v # widgets.xauusd_price
          /\ Rerun([widgets EXCEPT !.xauusd_price = v])
    /\ UNCHANGED live_prices

\* lines 24-79 and 411-413: the cache expires or the refresh button clears
\* it, and the run fetches a new snapshot.  An input whose default (the live
\* value, lines 113, 119-129) changed is a new input and starts there.
RefreshLivePrices ==
    \E live \in LiveSnapshots :
        /\ live # live_prices
        /\ live_prices' = live
        /\ LET ccy == widgets.account_currency
           IN  Rerun([widgets EXCEPT
                        !.xauusd_price =
                            IF live.xauusd = live_prices.xauusd THEN @
                            ELSE live.xauusd,
                        !.conversion_rate_usd_to_account =
                            IF LiveRate(live, ccy) = LiveRate(live_prices, ccy)
                            THEN @ ELSE LiveRate(live, ccy)])

Next ==
    \/ \E n \in LayerChoices : SetNumLayers(n)
    \/ \E i \in 1..MaxLayers, t \in PlannedChoices : SetPlannedTrades(i, t)
    \/ \E i \in 1..MaxLayers, o \in 0..30 : SetOpenedTrades(i, o)
    \/ \E i \in 1..MaxLayers, h \in 0..30 : SetTpHits(i, h)
    \/ \E v \in LotChoices : SetLotSize(v)
    \/ \E v \in PipValueChoices : SetPipValue(v)
    \/ \E v \in SlDistanceChoices : SetSlDistance(v)
    \/ \E v \in TpDistanceChoices : SetTpDistance(v)
    \/ \E v \in LayerDistanceChoices : SetLayerDistance(v)
    \/ \E v \in BalanceChoices : SetAccountBalance(v)
    \/ \E c \in Currencies : SetAccountCurrency(c)
    \/ SetConversionRate
    \/ \E v \in LeverageChoices : SetLeverage(v)
    \/ SetXauusdPrice
    \/ RefreshLivePrices

Spec == Init /\ [][Next]_vars

(***************************************************************************)
(* The calculations as functions of their parameters.  Lines 166, 212,     *)
(* 221, 252, 253 and 262 branch on parameter values the sidebar's          *)
(* min_value settings keep the user from entering (a lot size <= 0, a zero *)
(* quote, a zero balance).  SpecCalc runs the same calculations over       *)
(* parameter records that include those values, to settle what the code    *)
(* does with them.                                                         *)
(***************************************************************************)
CalcLayers == {1, 2}
CalcLots == {Q(-1, 100), I(0), Q(1, 100)}
CalcPipValues == {Q(-1, 10), I(0), Q(1, 10)}
CalcBalances == {I(0), I(1000)}
CalcRates == {I(0), Q(5, 4)}
CalcOpened == {0, 4}

CalcParameters ==
    { [ num_layers |-> n,
        lot_size_per_trade |-> lot,
        pip_value |-> pip,
        sl_distance_pips |-> 80,
        tp_distance_pips |-> 50,
        distance_first_to_last_layer |-> 30,
        account_balance |-> bal,
        account_currency |-> ccy,
        leverage |-> <<1, 500>>,
        xauusd_price |-> FallbackPrices.xauusd,
        conversion_rate_usd_to_account |-> IF ccy = "USD" THEN I(1) ELSE rate,
        trades_per_layer_list |-> [i \in 1..n |-> 4],
        opened_trades_per_layer |-> [i \in 1..n |-> opened],
        tp_hits_per_layer |-> [i \in 1..n |-> DefaultTpHits(opened, 4)] ] :
      n \in CalcLayers, lot \in CalcLots, pip \in CalcPipValues,
      bal \in CalcBalances, ccy \in Currencies, rate \in CalcRates,
      opened \in CalcOpened }

InitCalc ==
    /\ live_prices = FallbackPrices
    /\ widgets \in CalcParameters
    /\ runs = 0

\* the calculations run over another parameter record
Recalculate ==
    /\ \E w \in CalcParameters :
          /\ w # widgets
          /\ widgets' = w
    /\ UNCHANGED <<live_prices, runs>>

NextCalc == Recalculate

SpecCalc == InitCalc /\ [][NextCalc]_vars

(***************************************************************************)
(* The claims.  Each formula restates the claim's own expression over the  *)
(* widget values and compares it with what the code computes.              *)
(***************************************************************************)
Layers == 1..widgets.num_layers

\* the claim's priceGapPips and raw distance to stop of layer i (1-based)
ClaimedGap ==
    IF widgets.num_layers > 1
    THEN Q(widgets.distance_first_to_last_layer, widgets.num_layers - 1)
    ELSE I(0)

ClaimedRawDistance(i) ==
    RSub(I(widgets.sl_distance_pips), RMul(I(i - 1), ClaimedGap))

ClaimedLayerLoss(i) ==
    RMul(RMul(RMul(RMax(I(0), ClaimedRawDistance(i)), widgets.pip_value),
              RDiv(widgets.lot_size_per_trade, Q(1, 100))),
         I(widgets.trades_per_layer_list[i]))

\* C1: in every run the theoretical max loss is the sum over the layers of
\* max(0, sl - i*gap) * pipValue * (lot/0.01) * tradesPerLayer[i], with
\* gap = spread/(numLayers-1) for more than one layer and 0 for one layer;
\* the plan of the example (6 layers, lot 0.02, pip value 0.1, SL 80,
\* spread 40, trades 4,4,4,4,8,8) gives 358.4.
C1_PlanOfExample ==
    /\ widgets.num_layers = 6
    /\ widgets.lot_size_per_trade = Q(2, 100)
    /\ widgets.pip_value = Q(1, 10)
    /\ widgets.sl_distance_pips = 80
    /\ widgets.distance_first_to_last_layer = 40
    /\ widgets.trades_per_layer_list = <<4, 4, 4, 4, 8, 8>>

C1_TheoreticalMaxLoss ==
    /\ theoretical_max_loss_usd =
           RSumTo([i \in Layers |-> ClaimedLayerLoss(i)], widgets.num_layers)
    /\ C1_PlanOfExample => theoretical_max_loss_usd = Q(3584, 10)

\* the plan of the example has been entered and evaluated
C1_Witness == C1_PlanOfExample /\ theoretical_max_loss_usd = Q(3584, 10)

\* C2: a layer whose raw distance to stop is negative has a per-trade loss of
\* exactly 0, and no layer's per-trade loss is negative.
C2_ClampedLoss ==
    \A i \in Layers :
        \A loss \in {loss_per_trade_usd_per_layer[i]} :
            /\ RLt(ClaimedRawDistance(i), I(0)) => loss = I(0)
            /\ RLe(I(0), loss)

\* a run in which some layer lies beyond the stop while an earlier layer
\* still has a positive loss
C2_Witness ==
    /\ \E i \in Layers : RLt(ClaimedRawDistance(i), I(0))
    /\ \E i \in Layers : RGt(loss_per_trade_usd_per_layer[i], I(0))

\* the claim's conversion of a USD amount with a non-zero rate
ClaimedConversion(amount) ==
    CASE widgets.account_currency \in {"EUR", "GBP", "AUD"} ->
             RDiv(amount, widgets.conversion_rate_usd_to_account)
      [] widgets.account_currency \in {"CAD", "CHF", "JPY"} ->
             RMul(amount, widgets.conversion_rate_usd_to_account)
      [] widgets.account_currency = "USD" -> amount

\* C3: with a non-zero rate every amount the run converts is divided by the
\* rate for EUR, GBP and AUD, multiplied by it for CAD, CHF and JPY, and left
\* unchanged for USD.
C3_UsdToAccount ==
    widgets.conversion_rate_usd_to_account # I(0) =>
        /\ widgets.account_currency \in Currencies
        /\ \A amount \in {theoretical_max_loss_usd, net_realized_pl_usd,
                           margin_required_usd} :
               usd_to_account_currency(amount) = ClaimedConversion(amount)

\* a non-zero loss converted with a quote other than 1 into a currency that
\* is quoted per USD
C3_Witness ==
    /\ widgets.account_currency \in {"CAD", "CHF", "JPY"}
    /\ widgets.conversion_rate_usd_to_account \notin {I(0), I(1)}
    /\ theoretical_max_loss_usd # I(0)
    /\ theoretical_max_loss_account # theoretical_max_loss_usd

\* the linear interpolation of the claims from 10% at balance 1000 to 2.5%
\* at balance top, in percent, at the balance of the run
InterpolatedRisk(top) ==
    LET b == RMax(I(1000), RMin(widgets.account_balance, I(top)))
    IN  RMul(I(100),
             RSub(Q(10, 100),
                  RMul(RDiv(RSub(b, I(1000)), I(top - 1000)),
                       RSub(Q(10, 100), Q(25, 1000)))))

\* C4 as claimed: for every balance the allowed risk percentage is the
\* interpolation from 10% at balance 1000 to 2.5% at balance 150000, with
\* the balance clamped to [1000, 150000].
C4_AllowedRiskTo150000 == allowed_risk_percentage = InterpolatedRisk(150000)

\* C4 as amended: for every balance the allowed risk percentage is
\* 100 * (0.10 - (clamp(balance, 1000, 100000) - 1000) / (100000 - 1000)
\* * (0.10 - 0.025)), the interpolation from 10% at balance 1000 to 2.5% at
\* balance 100000.
C4_AllowedRiskTo100000 == allowed_risk_percentage = InterpolatedRisk(100000)

\* a run with a balance strictly between the two ends of the interpolation
C4_Witness ==
    /\ RLt(I(1000), widgets.account_balance)
    /\ RLt(widgets.account_balance, I(100000))
    /\ RLt(Q(5, 2), allowed_risk_percentage)
    /\ RLt(allowed_risk_percentage, I(10))

\* C5: the allowed risk percentage is non-increasing in the balance over
\* [1000, 150000], is 10.0 at balance 1000 and 2.5 at balance 150000, and is
\* constant over the balances below 1000 and over the balances above 150000.
\* Stated over the balance before and after a run.
C5_RiskPolicyStep ==
    LET b == widgets.account_balance
        c == widgets.account_balance'
    IN  /\ (RLe(I(1000), b) /\ RLe(b, c) /\ RLe(c, I(150000))) =>
               RLe(allowed_risk_percentage', allowed_risk_percentage)
        /\ (RLt(b, I(1000)) /\ RLt(c, I(1000))) =>
               allowed_risk_percentage' = allowed_risk_percentage
        /\ (RGt(b, I(150000)) /\ RGt(c, I(150000))) =>
               allowed_risk_percentage' = allowed_risk_percentage
        /\ b = I(1000) => allowed_risk_percentage = I(10)
        /\ c = I(1000) => allowed_risk_percentage' = I(10)
        /\ b = I(150000) => allowed_risk_percentage = Q(5, 2)
        /\ c = I(150000) => allowed_risk_percentage' = Q(5, 2)

C5_RiskPolicy == [][C5_RiskPolicyStep]_vars

\* a run at the upper end of the claimed range, reached from a smaller
\* balance
C5_Witness ==
    /\ runs > 0
    /\ widgets.account_balance = I(150000)
    /\ allowed_risk_percentage = Q(5, 2)

\* the claim's total lots
ClaimedTotalLots ==
    RSumTo([i \in Layers |->
               RMul(I(widgets.trades_per_layer_list[i]),
                    widgets.lot_size_per_trade)],
           widgets.num_layers)

\* C6: in every run margin_required_usd = (total lots * 100 * gold price) /
\* leverage ratio with total lots the sum of tradesPerLayer[i] * lot size,
\* margin_required_account is that amount converted by
\* usd_to_account_currency, margin_usage_percentage is
\* margin_required_account / balance * 100 and free_margin_account is
\* balance - margin_required_account.
C6_MarginFigures ==
    \A m \in {RDiv(RMul(RMul(ClaimedTotalLots, I(100)), widgets.xauusd_price),
                   I(widgets.leverage[2]))} :
        /\ margin_required_usd = m
        /\ \A a \in {usd_to_account_currency(m)} :
               /\ margin_required_account = a
               /\ margin_usage_percentage =
                      RMul(RDiv(a, widgets.account_balance), I(100))
               /\ free_margin_account = RSub(widgets.account_balance, a)

\* a run whose margin exceeds the balance: the free margin is negative
C6_Witness ==
    /\ RGt(margin_required_usd, I(0))
    /\ RLt(free_margin_account, I(0))
    /\ RGt(margin_usage_percentage, I(100))

\* the claim's one actual risk percentage: the worst-case loss in account
\* currency over the balance, in percent
ClaimedActualRisk ==
    RMul(RDiv(theoretical_max_loss_account, widgets.account_balance), I(100))

\* the simulated risk percentage: the realized loss in account currency over
\* the balance, in percent
SimulatedRisk ==
    RMul(RDiv(realized_loss_account, widgets.account_balance), I(100))

\* C7 as claimed: the status is decided by the worst-case risk percentage
\* and the allowed percentage alone: too high exactly when actual > allowed,
\* approaching exactly when 0.75 * allowed < actual <= allowed, within range
\* otherwise.
C7_StatusOfWorstCaseOnly ==
    \A actual \in {ClaimedActualRisk}, allowed \in {allowed_risk_percentage},
       status \in {risk_assessment} :
        /\ status \in {"theoretical_exceeds_allowed", "realized_exceeds_allowed"}
             <=> RGt(actual, allowed)
        /\ status = "realized_approaching"
             <=> (RGt(actual, RMul(allowed, Q(75, 100))) /\ RLe(actual, allowed))

\* C7 as amended: the status is decided by the worst-case risk percentage,
\* the simulated realized risk percentage and the allowed percentage: risk
\* too high exactly when worst-case > allowed; otherwise realized-exceeds
\* exactly when realized > allowed, approaching exactly when
\* 0.75 * allowed < realized <= allowed, and within range otherwise.
C7_StatusOfBothRisks ==
    \A actual \in {ClaimedActualRisk}, realized \in {SimulatedRisk},
       allowed \in {allowed_risk_percentage}, status \in {risk_assessment} :
        /\ status = "theoretical_exceeds_allowed" <=> RGt(actual, allowed)
        /\ status = "realized_exceeds_allowed"
             <=> (RLe(actual, allowed) /\ RGt(realized, allowed))
        /\ status = "realized_approaching"
             <=> /\ RLe(actual, allowed)
                 /\ RLe(realized, allowed)
                 /\ RGt(realized, RMul(allowed, Q(75, 100)))
        /\ status = "within_allowed"
             <=> /\ RLe(actual, allowed)
                 /\ RLe(realized, RMul(allowed, Q(75, 100)))

\* a run whose worst-case risk lies between 0.75 * allowed and allowed while
\* the simulated take-profits keep the realized risk below 0.75 * allowed:
\* the status is within range
C7_Witness ==
    /\ RGt(ClaimedActualRisk, RMul(allowed_risk_percentage, Q(75, 100)))
    /\ RLe(ClaimedActualRisk, allowed_risk_percentage)
    /\ RLe(SimulatedRisk, RMul(allowed_risk_percentage, Q(75, 100)))
    /\ risk_assessment = "within_allowed"

\* the bound of the claim on the slider values of every layer
SimulationBound ==
    \A i \in Layers :
        /\ 0 <= widgets.tp_hits_per_layer[i]
        /\ widgets.tp_hits_per_layer[i] <= widgets.opened_trades_per_layer[i]
        /\ widgets.opened_trades_per_layer[i] <= widgets.trades_per_layer_list[i]

\* C8 as claimed: the bound holds in every evaluation, and an input that
\* violates it (a planned count set below the opened count the sliders
\* hold) is rejected as InvalidParameter.
C8_ViolationRejectedStep ==
    /\ SimulationBound
    /\ (\E i \in 1..Min(widgets.num_layers, widgets'.num_layers) :
           widgets'.trades_per_layer_list[i] < widgets.opened_trades_per_layer[i])
         => run_outcome' = "InvalidParameter"

C11_DivisionGuards ==
    /\ run_outcome = "metrics_rendered"
    /\ widgets.account_balance = I(0) =>
           /\ theoretical_max_risk_percentage = I(0)
           /\ realized_risk_percentage = I(0)
           /\ margin_usage_percentage = I(0)
    /\ \A opened \in {SumTo(widgets.opened_trades_per_layer, widgets.num_layers)} :
           IF opened = 0
           THEN average_profit_per_closed_trade_usd = I(0)
           ELSE average_profit_per_closed_trade_usd =
                    RDiv(RSub(total_profit_usd, total_realized_loss_usd),
                         I(opened))

\* an evaluation in which both guards are taken: the balance is 0 while the
\* worst-case loss and the margin are not, and no trade was opened
C11_Witness ==
    /\ widgets.account_balance = I(0)
    /\ total_opened_trades = 0
    /\ theoretical_max_loss_account # I(0)
    /\ margin_required_account # I(0)
    /\ theoretical_max_risk_percentage = I(0)
    /\ margin_usage_percentage = I(0)
    /\ average_profit_per_closed_trade_usd = I(0)

\* C12: in every evaluation whose inputs satisfy
\* 0 <= tpHits[i] <= openedTrades[i] <= tradesPerLayer[i], the realized loss
\* does not exceed the theoretical maximum loss, in total and layer by layer,
\* and the total of SL hits plus the total of TP hits is the total of opened
\* trades.
C12_RealizedWithinTheoretical ==
    SimulationBound =>
        /\ RLe(total_realized_loss_usd, theoretical_max_loss_usd)
        /\ \A i \in Layers :
               RLe(layer_loss_usd_realized[i], layer_max_loss_usd[i])
        /\ total_sl_hits + total_tp_hits = total_opened_trades

\* a run in which a layer opened fewer trades than planned and some of the
\* opened trades hit their stop: the realized loss is positive and strictly
\* below the theoretical maximum
C12_Witness ==
    /\ runs > 0
    /\ SimulationBound
    /\ \E i \in Layers :
          widgets.opened_trades_per_layer[i] < widgets.trades_per_layer_list[i]
    /\ total_tp_hits > 0
    /\ total_sl_hits > 0
    /\ RGt(total_realized_loss_usd, I(0))
    /\ RLt(total_realized_loss_usd, theoretical_max_loss_usd)

====
